---- MODULE Spec2Model ----
(***************************************************************************)
(* Model of the report parser of Appp_23.py: parse_report, the line        *)
(* scanner extract_tests_from_text with its closure flush_current, and the *)
(* "Test Report Verification" page that calls them.                        *)
(*                                                                         *)
(* Texts are TLA+ strings; Len, SubSeq and \o act on them character by     *)
(* character, so str.lower, str.strip, str.replace, str.split, the `in`    *)
(* substring test and the three regular expressions are computed on the    *)
(* characters of the line, as the Python code computes them.               *)
(***************************************************************************)
EXTENDS Integers, Sequences, FiniteSets, TLC

(***************************************************************************)
(* Bounds of the model.                                                    *)
(***************************************************************************)
\* longest document (in pages / paragraphs) built freely from Vocab
MaxUnits == 3

(***************************************************************************)
(* Python string primitives.                                               *)
(***************************************************************************)
Char(s, i) == SubSeq(s, i, i)

Uppers == "ABCDEFGHIJKLMNOPQRSTUVWXYZ"

Lowers == "abcdefghijklmnopqrstuvwxyz"

\* the characters str.strip() removes and the regex class \s matches
Whitespace == {" ", "\t", "\n", "\r", "\f"}

lower_char(c) ==
    IF \E k \in 1..26 : Char(Uppers, k) = c
    THEN Char(Lowers, CHOOSE k \in 1..26 : Char(Uppers, k) = c)
    ELSE c

upper_char(c) ==
    IF \E k \in 1..26 : Char(Lowers, k) = c
    THEN Char(Uppers, CHOOSE k \in 1..26 : Char(Lowers, k) = c)
    ELSE c

RECURSIVE lower(_)
lower(s) ==
    IF Len(s) = 0 THEN ""
    ELSE lower_char(Char(s, 1)) \o lower(SubSeq(s, 2, Len(s)))

RECURSIVE upper(_)
upper(s) ==
    IF Len(s) = 0 THEN ""
    ELSE upper_char(Char(s, 1)) \o upper(SubSeq(s, 2, Len(s)))

\* s.replace(' ', ''): removes the space character and nothing else
RECURSIVE replace_space(_)
replace_space(s) ==
    IF Len(s) = 0 THEN ""
    ELSE (IF Char(s, 1) = " " THEN "" ELSE Char(s, 1))
         \o replace_space(SubSeq(s, 2, Len(s)))

\* s.strip()
RECURSIVE strip(_)
strip(s) ==
    IF Len(s) = 0 THEN ""
    ELSE IF Char(s, 1) \in Whitespace THEN strip(SubSeq(s, 2, Len(s)))
    ELSE IF Char(s, Len(s)) \in Whitespace THEN strip(SubSeq(s, 1, Len(s) - 1))
    ELSE s

\* sub in s
Contains(sub, s) ==
    \E p \in 1..(Len(s) - Len(sub) + 1) : SubSeq(s, p, p + Len(sub) - 1) = sub

\* text.split('\n'): always at least one piece, the last one possibly empty
RECURSIVE split(_)
split(text) ==
    IF \E p \in 1..Len(text) : Char(text, p) = "\n"
    THEN LET p == CHOOSE q \in 1..Len(text) :
                     /\ Char(text, q) = "\n"
                     /\ \A r \in 1..(q - 1) : Char(text, r) # "\n"
         IN  <<SubSeq(text, 1, p - 1)>> \o split(SubSeq(text, p + 1, Len(text)))
    ELSE <<text>>

\* '\n'.join(parts)
RECURSIVE join(_)
join(parts) ==
    IF Len(parts) = 0 THEN ""
    ELSE IF Len(parts) = 1 THEN parts[1]
    ELSE parts[1] \o "\n" \o join(Tail(parts))

(***************************************************************************)
(* Inputs: the uploaded documents.                                         *)
(***************************************************************************)
PDF == "application/pdf"

DOCX == "application/vnd.openxmlformats-officedocument.wordprocessingml.document"

DOC == "application/msword"

XLSX == "application/vnd.openxmlformats-officedocument.spreadsheetml.sheet"

XLS == "application/vnd.ms-excel"

\* content types the dispatch of parse_report does not name
OtherTypes == {"text/plain", "image/png"}

\* page / paragraph texts the free documents are built from
Vocab ==
    { "IP  Rating",
      "EMC Test Limit: 2 Actual: fail",
      "",
      "Result: PASS ",
      "no fail, pass",
      "Requirement: 5A",
      "Limit: 10A Measured: 4A",
      "IP\tRating" }

\* sequences over S of length at most n
RECURSIVE SeqsUpTo(_, _)
SeqsUpTo(S, n) ==
    IF n = 0 THEN {<<>>}
    ELSE LET shorter == SeqsUpTo(S, n - 1)
         IN  shorter \cup {Append(q, x) : q \in shorter, x \in S}

\* one-segment texts: a heading line followed by body lines that match no
\* catalog name
SegmentTexts ==
    { "IP Rating Test\nResult: PASS",
      "Short Circuit Protection Test\nResult: FAIL\nExpected: trip\nObserved: trip",
      "Cell  Balancing: pass\nDeviation: 3mV\nfailed later",
      "Vibration test Requirement: 5A\nRequirement: 10A\nno label here" }

\* whole report texts, held in one page / paragraph
Scenarios ==
    { "IP Rating Test\nResult: PASS\n\nShort Circuit Test\nResult: FAIL",
      "Overcharge Protection\nResult: PASS\nEMC Test\nResult: FAIL\n\nSalt Spray Test",
      "Overcharge\tProtection\nResult: PASS",
      "\tThermal   Runaway Test\t\nLimit::\nValue : 7\n \t\nno heading: pass" }
    \cup {a \o "\n\n" \o b : a \in SegmentTexts, b \in SegmentTexts}

\* the elements of a sequence
Range(q) == {q[k] : k \in 1..Len(q)}

\* every stripped line the scan loop can meet in these documents
StrippedLines ==
    {strip(l) : l \in UNION {Range(split(u)) : u \in Vocab \cup Scenarios}}

\* rows pandas.read_excel(...).to_dict("records") yields
ExcelRows ==
    { [TestName |-> "IP Rating", Standard |-> "IEC 60529", Result |-> "PASS",
       Expected |-> "IP65", Actual |-> "IP65", Paragraph |-> ""],
      [Part |-> "bq76952", Qty |-> "2"] }

\* an uploaded file: its declared type, whether the library can open it, its
\* pages / paragraphs / rows, and the index of the page or paragraph whose
\* text extraction raises (0: none does)
File(type, openable, units, bad) ==
    [type |-> type, openable |-> openable, units |-> units, bad |-> bad]

TextFiles ==
    {File(t, TRUE, u, b) :
        t \in {PDF, DOCX, DOC},
        u \in SeqsUpTo(Vocab, MaxUnits) \cup {<<sc>> : sc \in Scenarios},
        b \in 0..MaxUnits}

UploadedFiles ==
    {f \in TextFiles : f.bad <= Len(f.units)}
    \cup {File(t, FALSE, <<>>, 0) : t \in {PDF, DOCX, DOC, XLSX, XLS}}
    \cup {File(t, TRUE, r, 0) : t \in {XLSX, XLS}, r \in SeqsUpTo(ExcelRows, 1)}
    \cup {File(t, TRUE, <<>>, 0) : t \in OtherTypes}

(***************************************************************************)
(* The standards catalog.                                                  *)
(***************************************************************************)
\* the keys of STANDARDS_KNOWLEDGE_BASE in insertion order
ALL_STANDARD_TESTS ==
    << "IP Rating",
       "Short Circuit Protection",
       "Overcharge Protection",
       "Over-discharge Protection",
       "Cell Balancing",
       "Temperature Protection",
       "Communication Interface (CAN)",
       "Vibration Test",
       "Thermal Runaway Test",
       "Frame Fatigue Test",
       "Braking Performance Test",
       "EMC Test",
       "Salt Spray Test",
       "Efficiency Test",
       "Insulation Resistance Test",
       "Dielectric Withstand (Hipot) Test" >>

\* STANDARDS_KNOWLEDGE_BASE.get(name, "N/A")
STANDARDS_KNOWLEDGE_BASE(name) ==
    CASE name = "IP Rating"                         -> "IEC 60529"
      [] name = "Short Circuit Protection"          -> "AIS-156 / IEC 62133"
      [] name = "Overcharge Protection"             -> "AIS-156 / ISO 12405-4"
      [] name = "Over-discharge Protection"         -> "AIS-156 / ISO 12405-4"
      [] name = "Cell Balancing"                    -> "AIS-156"
      [] name = "Temperature Protection"            -> "AIS-156 / ISO 12405-4"
      [] name = "Communication Interface (CAN)"     -> "ISO 11898"
      [] name = "Vibration Test"                    -> "IEC 60068-2-6 / AIS-048"
      [] name = "Thermal Runaway Test"              -> "AIS-156 Amendment 3"
      [] name = "Frame Fatigue Test"                -> "ISO 4210-6"
      [] name = "Braking Performance Test"          -> "EN 15194 / ISO 4210-2"
      [] name = "EMC Test"                          -> "IEC 61000 / EN 15194"
      [] name = "Salt Spray Test"                   -> "ASTM B117"
      [] name = "Efficiency Test"                   -> "EN 15194"
      [] name = "Insulation Resistance Test"        -> "IEC 60364-6"
      [] name = "Dielectric Withstand (Hipot) Test" -> "IEC 60335-1"
      [] OTHER                                      -> "N/A"

(***************************************************************************)
(* Heading detection (the inner for loop of extract_tests_from_text).      *)
(***************************************************************************)
\* the condition of the if inside the loop over ALL_STANDARD_TESTS
HeadingMatches(stdtest, line_strip) ==
    LET key == replace_space(lower(stdtest))
    IN  \/ Contains(key, replace_space(lower(line_strip)))
        \/ Contains(lower(stdtest), lower(line_strip))

\* matched_test after the loop: the first catalog name that matches, "" for None
matched_test(line_strip) ==
    IF \E k \in 1..Len(ALL_STANDARD_TESTS) :
           HeadingMatches(ALL_STANDARD_TESTS[k], line_strip)
    THEN ALL_STANDARD_TESTS[
             CHOOSE k \in 1..Len(ALL_STANDARD_TESTS) :
                 /\ HeadingMatches(ALL_STANDARD_TESTS[k], line_strip)
                 /\ \A j \in 1..(k - 1) :
                        ~HeadingMatches(ALL_STANDARD_TESTS[j], line_strip)]
    ELSE ""

(***************************************************************************)
(* The three regular expressions, searched with re.I.                      *)
(***************************************************************************)
\* positions where (pass|fail) matches, ignoring case
PassFailAt(s) ==
    {p \in 1..(Len(s) - 3) : lower(SubSeq(s, p, p + 3)) \in {"pass", "fail"}}

\* re.search(r"(pass|fail)", s, re.I): group 1 of the leftmost match, "" for no match
SearchPassFail(s) ==
    IF PassFailAt(s) = {} THEN ""
    ELSE LET p == CHOOSE q \in PassFailAt(s) : \A r \in PassFailAt(s) : q <= r
         IN  SubSeq(s, p, p + 3)

\* the alternatives of the first group of the two labeled-value patterns
ExpectedLabels == <<"Requirement", "Expected", "Limit">>

ActualLabels ==
    <<"Actual", "Measured", "Observed", "Value", "Triggered at", "Cut-off at",
      "Deviation">>

\* the class [:\s]
IsSep(c) == c = ":" \/ c \in Whitespace

\* the class [^\n\r]
IsValueChar(c) == c # "\n" /\ c # "\r"

\* Lengths k that [:\s]+ can take at position q of s with a character of
\* [^\n\r] following, so that ([^\n\r]+) can match
SepLengths(s, q) ==
    {k \in 1..(Len(s) - q) :
        /\ \A j \in 0..(k - 1) : IsSep(Char(s, q + j))
        /\ IsValueChar(Char(s, q + k))}

\* (label)[:\s]+([^\n\r]+) anchored at p: [:\s]+ is greedy, so the longest
\* run that still lets the value group match is taken; the value group is
\* greedy and runs to the end of the line or the next \r or \n
LabelMatchesAt(label, s, p) ==
    /\ p + Len(label) - 1 <= Len(s)
    /\ lower(SubSeq(s, p, p + Len(label) - 1)) = lower(label)
    /\ SepLengths(s, p + Len(label)) # {}

ValueAt(label, s, p) ==
    LET q     == p + Len(label)
        k     == CHOOSE m \in SepLengths(s, q) : \A n \in SepLengths(s, q) : n <= m
        start == q + k
        stops == {e \in start..Len(s) : ~IsValueChar(Char(s, e))}
        end   == IF stops = {} THEN Len(s)
                 ELSE (CHOOSE e \in stops : \A f \in stops : e <= f) - 1
    IN  SubSeq(s, start, end)

\* the positions at which some alternative of labels starts a match
LabelMatchPositions(labels, s) ==
    {p \in 1..Len(s) : \E n \in 1..Len(labels) : LabelMatchesAt(labels[n], s, p)}

\* re.search of a labeled-value pattern: [found, group2] of the leftmost
\* match, the alternatives being tried in the order they are written
SearchLabeled(labels, s) ==
    IF LabelMatchPositions(labels, s) = {}
    THEN [found |-> FALSE, group2 |-> ""]
    ELSE LET P == LabelMatchPositions(labels, s)
             p == CHOOSE q \in P : \A r \in P : q <= r
             n == CHOOSE m \in 1..Len(labels) :
                      /\ LabelMatchesAt(labels[m], s, p)
                      /\ \A j \in 1..(m - 1) : ~LabelMatchesAt(labels[j], s, p)
         IN  [found |-> TRUE, group2 |-> ValueAt(labels[n], s, p)]

(***************************************************************************)
(* extract_tests_from_text.                                                *)
(***************************************************************************)
\* current = None
None == [none |-> TRUE]

\* the dict assigned to current when a heading matched
NewRecord(name) ==
    [TestName  |-> name,
     Standard  |-> STANDARDS_KNOWLEDGE_BASE(name),
     Result    |-> "N/A",
     Expected  |-> "N/A",
     Actual    |-> "N/A",
     Paragraph |-> ""]

\* flush_current without the reset of buffer_paragraph
flush_current_keep_buffer(st) ==
    IF st.current # None /\ st.current.TestName # ""
    THEN [st EXCEPT
            !.report_tests = Append(@, [st.current EXCEPT
                                 !.Paragraph = strip(st.buffer_paragraph)])]
    ELSE st

\* the state of the scan loop: st = [current, buffer_paragraph, report_tests]
\* flush_current(): appends current with its paragraph, empties the buffer,
\* leaves current bound
flush_current(st) ==
    IF st.current # None /\ st.current.TestName # ""
    THEN [st EXCEPT
            !.report_tests = Append(@, [st.current EXCEPT
                                 !.Paragraph = strip(st.buffer_paragraph)]),
            !.buffer_paragraph = ""]
    ELSE [st EXCEPT !.buffer_paragraph = ""]

\* what the four searches of one loop iteration find in a stripped line
LineSearches(line_strip) ==
    [matched_test |-> matched_test(line_strip),
     has_pass_fail |-> \/ Contains("pass", lower(line_strip))
                       \/ Contains("fail", lower(line_strip)),
     pass_fail     |-> SearchPassFail(line_strip),
     expected      |-> SearchLabeled(ExpectedLabels, line_strip),
     actual        |-> SearchLabeled(ActualLabels, line_strip)]

\* the searches of every line of the documents of the model, computed once
LineMemo == [ls \in StrippedLines |-> LineSearches(ls)]

Searches(line_strip) ==
    IF line_strip \in StrippedLines THEN LineMemo[line_strip]
    ELSE LineSearches(line_strip)

\* the pass/fail statement writing Result only while it is still N/A
ScanResult_first(cur, line_strip) ==
    IF Searches(line_strip).has_pass_fail /\ cur.Result = "N/A"
    THEN [cur EXCEPT !.Result = upper(Searches(line_strip).pass_fail)]
    ELSE cur

\* the pass/fail statement of the `if current:` block
ScanResult(cur, line_strip) ==
    IF Searches(line_strip).has_pass_fail
    THEN IF Searches(line_strip).pass_fail # ""
         THEN [cur EXCEPT !.Result = upper(Searches(line_strip).pass_fail)]
         ELSE cur
    ELSE cur

\* the Expected statement writing Expected only while it is still N/A
ScanExpected_first(cur, line_strip) ==
    LET m == Searches(line_strip).expected
    IN  IF m.found /\ cur.Expected = "N/A"
        THEN [cur EXCEPT !.Expected = m.group2] ELSE cur

\* the Expected statement of the `if current:` block
ScanExpected(cur, line_strip) ==
    LET m == Searches(line_strip).expected
    IN  IF m.found THEN [cur EXCEPT !.Expected = m.group2] ELSE cur

\* the Actual statement of the `if current:` block
ScanActual(cur, line_strip) ==
    LET m == Searches(line_strip).actual
    IN  IF m.found THEN [cur EXCEPT !.Actual = m.group2] ELSE cur

\* the `if current:` block
ScanFields(st, line_strip) ==
    IF st.current # None
    THEN [st EXCEPT
            !.current = ScanActual(ScanExpected(ScanResult(@, line_strip),
                                                line_strip), line_strip),
            !.buffer_paragraph = @ \o line_strip \o " "]
    ELSE st

\* the `if matched_test:` block
OpenSegment(st, name) ==
    IF name # ""
    THEN [flush_current(st) EXCEPT !.current = NewRecord(name)]
    ELSE st

\* the iteration with blank lines skipped instead of closing the segment
ScanLine_skip_blank(st, line) ==
    LET line_strip == strip(line)
    IN  IF line_strip = ""
        THEN st
        ELSE ScanFields(OpenSegment(st, Searches(line_strip).matched_test),
                        line_strip)

\* the iteration with the line scanned into the active segment before the
\* heading test closes it
ScanLine_scan_then_open(st, line) ==
    LET line_strip == strip(line)
    IN  IF line_strip = ""
        THEN [flush_current(st) EXCEPT !.current = None]
        ELSE IF Searches(line_strip).matched_test # ""
        THEN ScanFields(OpenSegment(ScanFields(st, line_strip),
                                    Searches(line_strip).matched_test),
                        line_strip)
        ELSE ScanFields(st, line_strip)

\* one iteration of `for line in lines`
ScanLine(st, line) ==
    LET line_strip == strip(line)
    IN  IF line_strip = ""
        THEN [flush_current(st) EXCEPT !.current = None]
        ELSE ScanFields(OpenSegment(st, Searches(line_strip).matched_test),
                        line_strip)

\* the locals at the start of the loop
ScanStart == [current |-> None, buffer_paragraph |-> "", report_tests |-> <<>>]

RECURSIVE ScanFrom(_, _, _)
ScanFrom(st, lines, k) ==
    IF k > Len(lines) THEN st ELSE ScanFrom(ScanLine(st, lines[k]), lines, k + 1)

\* the whole function: the loop over text.split('\n'), then the final flush
extract_tests_from_text(text) ==
    flush_current(ScanFrom(ScanStart, split(text), 1)).report_tests

(***************************************************************************)
(* State.                                                                  *)
(***************************************************************************)
VARIABLES
    uploaded_file,     \* the file handed to parse_report
    pc,                \* position in the page script
    pd_text,           \* parse_report: the text read so far
    page_i,            \* parse_report: index of the next pdf page
    lines,             \* extract_tests_from_text: text.split('\n')
    line_i,            \* extract_tests_from_text: index of the next line
    current,           \* extract_tests_from_text: the active segment or None
    buffer_paragraph,  \* extract_tests_from_text: the paragraph accumulator
    report_tests,      \* extract_tests_from_text: the records emitted so far
    parsed_tests,      \* the value parse_report returned
    st_error,          \* messages shown with st.error by parse_report
    st_warning,        \* messages shown with st.warning by the page
    st_summary         \* what the page rendered for the records

vars ==
    <<uploaded_file, pc, pd_text, page_i, lines, line_i, current,
      buffer_paragraph, report_tests, parsed_tests, st_error, st_warning,
      st_summary>>

scanVars == <<lines, line_i, current, buffer_paragraph, report_tests>>

uiVars == <<st_warning, st_summary>>

\* values of parsed_tests: a list, or None when the function falls off its end
ListOf(rows) == [kind |-> "list", rows |-> rows]

NoneValue == [kind |-> "None"]

NotReturned == [kind |-> "pending"]

Init ==
    /\ uploaded_file \in UploadedFiles
    /\ pc = "parse_report"
    /\ pd_text = ""
    /\ page_i = 1
    /\ lines = <<>>
    /\ line_i = 1
    /\ current = None
    /\ buffer_paragraph = ""
    /\ report_tests = <<>>
    /\ parsed_tests = NotReturned
    /\ st_error = <<>>
    /\ st_warning = <<>>
    /\ st_summary = "none"

(***************************************************************************)
(* parse_report.                                                           *)
(***************************************************************************)
\* the except clause: one st.error, return []
Except(e) ==
    /\ st_error' = Append(st_error, "Parsing error: " \o e)
    /\ parsed_tests' = ListOf(<<>>)
    /\ pc' = "render"

\* the call extract_tests_from_text(text) up to the start of its loop
StartScan(text) ==
    /\ lines' = split(text)
    /\ line_i' = 1
    /\ current' = None
    /\ buffer_paragraph' = ""
    /\ report_tests' = <<>>
    /\ pc' = "scan"

\* pdfplumber.open(uploaded_file)
OpenPdf ==
    /\ pc = "parse_report"
    /\ uploaded_file.type = PDF
    /\ IF uploaded_file.openable
       THEN /\ pd_text' = ""
            /\ page_i' = 1
            /\ pc' = "pdf_pages"
            /\ UNCHANGED <<parsed_tests, st_error>>
       ELSE /\ Except("cannot open document")
            /\ UNCHANGED <<pd_text, page_i>>
    /\ UNCHANGED <<uploaded_file, scanVars, uiVars>>

\* the page loop stepping over a page whose text cannot be extracted
ReadPage_skip ==
    /\ pc = "pdf_pages"
    /\ page_i <= Len(uploaded_file.units)
    /\ pd_text' = IF page_i = uploaded_file.bad THEN pd_text
                  ELSE pd_text \o uploaded_file.units[page_i] \o "\n"
    /\ page_i' = page_i + 1
    /\ UNCHANGED <<pc, parsed_tests, st_error>>
    /\ UNCHANGED <<uploaded_file, scanVars, uiVars>>

\* one iteration of `for page in pdf.pages`
ReadPage ==
    /\ pc = "pdf_pages"
    /\ page_i <= Len(uploaded_file.units)
    /\ IF page_i = uploaded_file.bad
       THEN /\ Except("cannot extract text")
            /\ UNCHANGED <<pd_text, page_i>>
       ELSE /\ pd_text' = pd_text \o uploaded_file.units[page_i] \o "\n"
            /\ page_i' = page_i + 1
            /\ UNCHANGED <<pc, parsed_tests, st_error>>
    /\ UNCHANGED <<uploaded_file, scanVars, uiVars>>

\* after the last page: extract_tests_from_text(pd_text)
PdfExtract ==
    /\ pc = "pdf_pages"
    /\ page_i > Len(uploaded_file.units)
    /\ StartScan(pd_text)
    /\ UNCHANGED <<uploaded_file, pd_text, page_i, parsed_tests, st_error, uiVars>>

\* the word-processing branch up to the call of extract_tests_from_text
ReadDocx ==
    /\ pc = "parse_report"
    /\ uploaded_file.type \in {DOCX, DOC}
    /\ IF ~uploaded_file.openable
       THEN /\ Except("cannot open document")
            /\ UNCHANGED <<pd_text, scanVars>>
       ELSE IF uploaded_file.bad # 0
       THEN /\ Except("cannot extract text")
            /\ UNCHANGED <<pd_text, scanVars>>
       ELSE /\ pd_text' = join(uploaded_file.units)
            /\ StartScan(join(uploaded_file.units))
            /\ UNCHANGED <<parsed_tests, st_error>>
    /\ UNCHANGED <<uploaded_file, page_i, uiVars>>

\* the spreadsheet branch
ReadExcel ==
    /\ pc = "parse_report"
    /\ uploaded_file.type \in {XLSX, XLS}
    /\ IF uploaded_file.openable
       THEN /\ parsed_tests' = ListOf(uploaded_file.units)
            /\ pc' = "render"
            /\ UNCHANGED st_error
       ELSE Except("cannot open document")
    /\ UNCHANGED <<uploaded_file, pd_text, page_i, scanVars, uiVars>>

\* no branch of the if / elif chain taken: the function ends without a return
OtherType ==
    /\ pc = "parse_report"
    /\ uploaded_file.type \notin {PDF, DOCX, DOC, XLSX, XLS}
    /\ parsed_tests' = NoneValue
    /\ pc' = "render"
    /\ UNCHANGED <<uploaded_file, pd_text, page_i, scanVars, st_error, uiVars>>

(***************************************************************************)
(* The loop of extract_tests_from_text.                                    *)
(***************************************************************************)
ScanState ==
    [current |-> current, buffer_paragraph |-> buffer_paragraph,
     report_tests |-> report_tests]

SetScanState(st) ==
    /\ current' = st.current
    /\ buffer_paragraph' = st.buffer_paragraph
    /\ report_tests' = st.report_tests

\* one iteration of `for line in lines`
ProcessLine ==
    /\ pc = "scan"
    /\ line_i <= Len(lines)
    /\ SetScanState(ScanLine(ScanState, lines[line_i]))
    /\ line_i' = line_i + 1
    /\ UNCHANGED <<uploaded_file, pc, pd_text, page_i, lines, parsed_tests,
                   st_error, uiVars>>

\* the return without the final flush_current()
ExtractReturn_no_flush ==
    /\ pc = "scan"
    /\ line_i > Len(lines)
    /\ parsed_tests' = ListOf(report_tests)
    /\ pc' = "render"
    /\ UNCHANGED <<uploaded_file, pd_text, page_i, scanVars, st_error, uiVars>>

\* the final flush_current() and the return, back in parse_report
ExtractReturn ==
    /\ pc = "scan"
    /\ line_i > Len(lines)
    /\ SetScanState(flush_current(ScanState))
    /\ parsed_tests' = ListOf(flush_current(ScanState).report_tests)
    /\ pc' = "render"
    /\ UNCHANGED <<uploaded_file, pd_text, page_i, lines, line_i, st_error,
                   uiVars>>

(***************************************************************************)
(* The Test Report Verification page, after parse_report returned.         *)
(***************************************************************************)
\* `if parsed_tests:`
Truthy(v) == v.kind = "list" /\ Len(v.rows) > 0

RecordKeys == {"TestName", "Standard", "Result", "Expected", "Actual", "Paragraph"}

Render ==
    /\ pc = "render"
    /\ IF Truthy(parsed_tests)
       THEN /\ st_summary' =
                  IF \A k \in 1..Len(parsed_tests.rows) :
                         RecordKeys \subseteq DOMAIN parsed_tests.rows[k]
                  THEN "records" ELSE "KeyError"
            /\ UNCHANGED st_warning
       ELSE /\ st_warning' = Append(st_warning, "No recognized tests found")
            /\ UNCHANGED st_summary
    /\ pc' = "done"
    /\ UNCHANGED <<uploaded_file, pd_text, page_i, scanVars, parsed_tests,
                   st_error>>

Next ==
    \/ OpenPdf
    \/ ReadPage
    \/ PdfExtract
    \/ ReadDocx
    \/ ReadExcel
    \/ OtherType
    \/ ProcessLine
    \/ ExtractReturn
    \/ Render

Spec == Init /\ [][Next]_vars

(***************************************************************************)
(* Vocabulary of the properties.                                           *)
(***************************************************************************)
TextTypes == {PDF, DOCX, DOC}

\* parse_report came back from extract_tests_from_text and the page is drawn
Extracted ==
    /\ pc = "done"
    /\ uploaded_file.type \in TextTypes
    /\ st_error = <<>>

IsBlank(line) == strip(line) = ""

IsHeading(line) == ~IsBlank(line) /\ Searches(strip(line)).matched_test # ""

\* indices of the heading lines of ls
HeadIdx(ls) == {j \in 1..Len(ls) : IsHeading(ls[j])}

\* index of the k-th heading line of ls
KthHeading(ls, k) ==
    CHOOSE j \in HeadIdx(ls) : Cardinality({h \in HeadIdx(ls) : h < j}) = k - 1

\* index of the last line of the segment whose heading is line h of ls
SegEnd(ls, h) ==
    LET closers == {j \in (h + 1)..Len(ls) : IsBlank(ls[j]) \/ IsHeading(ls[j])}
    IN  IF closers = {} THEN Len(ls)
        ELSE (CHOOSE j \in closers : \A c \in closers : j <= c) - 1

Min(S) == CHOOSE x \in S : \A y \in S : x <= y

Max(S) == CHOOSE x \in S : \A y \in S : y <= x

\* name and result of the records of a list
NameResult(rows) ==
    [k \in 1..Len(rows) |-> <<rows[k].TestName, rows[k].Result>>]

(***************************************************************************)
(* C1                                                                      *)
(***************************************************************************)
C1Text == "IP Rating Test\nResult: PASS\n\nShort Circuit Test\nResult: FAIL"

\* C1 as stated: for the five-line text "IP Rating Test", "Result: PASS",
\* blank, "Short Circuit Test", "Result: FAIL" the function returns exactly
\* two records, IP Rating / PASS then Short Circuit Protection / FAIL.
C1_TwoRecords ==
    (Extracted /\ join(lines) = C1Text) =>
        NameResult(parsed_tests.rows) =
            << <<"IP Rating", "PASS">>, <<"Short Circuit Protection", "FAIL">> >>

\* C1 amended: for that text the function returns exactly one record, IP
\* Rating / PASS; "Short Circuit Test" matches no catalog name, and the two
\* lines after the blank line belong to no segment.
C1_OneRecord ==
    (Extracted /\ join(lines) = C1Text) =>
        /\ NameResult(parsed_tests.rows) = << <<"IP Rating", "PASS">> >>
        /\ parsed_tests.rows[1].Paragraph = "IP Rating Test Result: PASS"
        /\ matched_test("Short Circuit Test") = ""

C1_Witness ==
    /\ Extracted
    /\ join(lines) = C1Text
    /\ Len(parsed_tests.rows) = 1

(***************************************************************************)
(* C2                                                                      *)
(***************************************************************************)
\* C2: a document that cannot be opened shows the parsing error and not the
\* "No recognized tests found" message; a readable document without any
\* catalog name shows "No recognized tests found" and no error.
C2_Distinguishable ==
    pc = "done" =>
        /\ (uploaded_file.type \in TextTypes /\ ~uploaded_file.openable) =>
               (st_error # <<>> /\ st_warning = <<>>)
        /\ (Extracted /\ HeadIdx(lines) = {}) =>
               (st_warning = <<"No recognized tests found">> /\ st_error = <<>>)

(***************************************************************************)
(* C3                                                                      *)
(***************************************************************************)
\* the match of the Expected / Actual pattern in a line
ExpectedIn(line) == Searches(strip(line)).expected

ActualIn(line) == Searches(strip(line)).actual

\* lines h..e of ls in which the pattern of a label family matches
LabeledLines(MatchIn(_), ls, h, e) == {j \in h..e : MatchIn(ls[j]).found}

\* the value a family leaves in a segment: that of its last matching line
LastLabeled(MatchIn(_), ls, h, e) ==
    IF LabeledLines(MatchIn, ls, h, e) = {} THEN "N/A"
    ELSE MatchIn(ls[Max(LabeledLines(MatchIn, ls, h, e))]).group2

\* C3: the Expected (Actual) field of every emitted record is the value
\* captured from the last line of its segment that matches the Expected
\* (Actual) family, whatever non-matching lines follow it; N/A if none matches.
C3_LastWriteWins ==
    Extracted =>
        \A k \in 1..Len(parsed_tests.rows) :
            k <= Cardinality(HeadIdx(lines)) =>
                LET h == KthHeading(lines, k)
                    e == SegEnd(lines, h)
                IN  /\ parsed_tests.rows[k].Expected =
                           LastLabeled(ExpectedIn, lines, h, e)
                    /\ parsed_tests.rows[k].Actual =
                           LastLabeled(ActualIn, lines, h, e)

\* a segment with two Expected lines of different values and a line without
\* label after them
C3_Witness ==
    /\ Extracted
    /\ \E k \in 1..Len(parsed_tests.rows) :
           LET h == KthHeading(lines, k)
               e == SegEnd(lines, h)
               L == LabeledLines(ExpectedIn, lines, h, e)
           IN  /\ Cardinality(L) >= 2
               /\ Max(L) < e
               /\ ExpectedIn(lines[Min(L)]).group2
                      # parsed_tests.rows[k].Expected
               /\ parsed_tests.rows[k].Expected \in {"5A", "10A"}

(***************************************************************************)
(* C4                                                                      *)
(***************************************************************************)
\* lines h..e of ls that contain pass or fail
PassFailIn(line) == Searches(strip(line)).pass_fail

PassFailLines(ls, h, e) == {j \in h..e : PassFailIn(ls[j]) # ""}

\* C4 as stated: the result is PASS, FAIL or N/A, and when the segment has
\* a pass / fail keyword it is the first occurrence of the whole segment,
\* that of the earliest line containing one.
C4_FirstOfSegment ==
    Extracted =>
        \A k \in 1..Len(parsed_tests.rows) :
            k <= Cardinality(HeadIdx(lines)) =>
                LET h == KthHeading(lines, k)
                    P == PassFailLines(lines, h, SegEnd(lines, h))
                IN  /\ parsed_tests.rows[k].Result \in {"PASS", "FAIL", "N/A"}
                    /\ P # {} => parsed_tests.rows[k].Result =
                                     upper(PassFailIn(lines[Min(P)]))

\* C4 amended: the result is PASS, FAIL or N/A; when the segment has a
\* pass / fail keyword it is the first occurrence within the last line of
\* the segment that contains one, and N/A otherwise.
C4_FirstOfLastLine ==
    Extracted =>
        \A k \in 1..Len(parsed_tests.rows) :
            k <= Cardinality(HeadIdx(lines)) =>
                LET h == KthHeading(lines, k)
                    P == PassFailLines(lines, h, SegEnd(lines, h))
                IN  /\ parsed_tests.rows[k].Result \in {"PASS", "FAIL", "N/A"}
                    /\ P # {} => parsed_tests.rows[k].Result =
                                     upper(PassFailIn(lines[Max(P)]))
                    /\ P = {} => parsed_tests.rows[k].Result = "N/A"

\* a segment whose first and last keyword lines disagree
C4_Witness ==
    /\ Extracted
    /\ \E k \in 1..Len(parsed_tests.rows) :
           LET h == KthHeading(lines, k)
               P == PassFailLines(lines, h, SegEnd(lines, h))
           IN  /\ Cardinality(P) >= 2
               /\ upper(PassFailIn(lines[Min(P)])) = "PASS"
               /\ parsed_tests.rows[k].Result = "FAIL"

(***************************************************************************)
(* C5                                                                      *)
(***************************************************************************)
\* ls is a segment, a blank line k, a segment: the only headings are line 1
\* and line k + 1, the only blank line is line k
TwoSegments(ls, k) ==
    /\ 1 < k /\ k < Len(ls)
    /\ HeadIdx(ls) = {1, k + 1}
    /\ \A j \in 1..Len(ls) : IsBlank(ls[j]) <=> j = k

\* the same text with the two segments exchanged
Swapped(ls, k) == SubSeq(ls, k + 1, Len(ls)) \o <<ls[k]>> \o SubSeq(ls, 1, k - 1)

\* C5: for a text "A, blank, B" of two segments the function returns two
\* records, "B, blank, A" gives the same two records in the other order,
\* and each record is the one its segment yields when scanned alone.
C5_SegmentIndependence ==
    Extracted =>
        \A k \in 1..Len(lines) :
            TwoSegments(lines, k) =>
                /\ Len(parsed_tests.rows) = 2
                /\ extract_tests_from_text(join(Swapped(lines, k))) =
                       <<parsed_tests.rows[2], parsed_tests.rows[1]>>
                /\ extract_tests_from_text(join(SubSeq(lines, 1, k - 1))) =
                       <<parsed_tests.rows[1]>>
                /\ extract_tests_from_text(join(SubSeq(lines, k + 1, Len(lines)))) =
                       <<parsed_tests.rows[2]>>

\* two different segments with bodies, each with fields found
C5_Witness ==
    /\ Extracted
    /\ \E k \in 1..Len(lines) :
           /\ TwoSegments(lines, k)
           /\ k > 2 /\ k + 1 < Len(lines)
           /\ parsed_tests.rows[1].TestName # parsed_tests.rows[2].TestName
           /\ parsed_tests.rows[1].Result # parsed_tests.rows[2].Result
           /\ parsed_tests.rows[1].Result # "N/A"
           /\ parsed_tests.rows[2].Expected # "N/A"

(***************************************************************************)
(* C6                                                                      *)
(***************************************************************************)
\* C6: for a content type that is none of PDF, word-processing or
\* spreadsheet, parse_report returns an empty list, the value it returns for
\* a readable document without tests, and reports no error.
C6_OtherTypeEmptyList ==
    (pc = "done" /\ uploaded_file.type \notin {PDF, DOCX, DOC, XLSX, XLS}) =>
        /\ parsed_tests = ListOf(<<>>)
        /\ st_error = <<>>

(***************************************************************************)
(* C7                                                                      *)
(***************************************************************************)
\* C7: when opening a PDF or word-processing document, or extracting the
\* text of one of its pages or paragraphs, raises, parse_report shows exactly
\* one parsing error and returns an empty list; nothing is extracted from the
\* pages read before the failure.  No call shows more than one error.
C7_OpenFailureIsolation ==
    /\ Len(st_error) <= 1
    /\ (/\ pc \in {"render", "done"}
        /\ uploaded_file.type \in TextTypes
        /\ (~uploaded_file.openable \/ uploaded_file.bad # 0)) =>
           /\ Len(st_error) = 1
           /\ parsed_tests = ListOf(<<>>)
           /\ report_tests = <<>>

\* a PDF whose first page holds a heading and whose second page fails
C7_Witness ==
    /\ pc = "done"
    /\ uploaded_file.type = PDF
    /\ uploaded_file.bad = 2
    /\ uploaded_file.units[1] = "IP  Rating"
    /\ pd_text = "IP  Rating\n"
    /\ Len(st_error) = 1
    /\ parsed_tests = ListOf(<<>>)

(***************************************************************************)
(* C8                                                                      *)
(***************************************************************************)
\* s with every whitespace character removed
RECURSIVE remove_whitespace(_)
remove_whitespace(s) ==
    IF Len(s) = 0 THEN ""
    ELSE (IF Char(s, 1) \in Whitespace THEN "" ELSE Char(s, 1))
         \o remove_whitespace(SubSeq(s, 2, Len(s)))

\* the matching policy as C8 words it
PolicyMatches(stdtest, line_strip) ==
    \/ Contains(remove_whitespace(lower(stdtest)),
                remove_whitespace(lower(line_strip)))
    \/ Contains(lower(stdtest), lower(line_strip))

PolicyMemo ==
    [ls \in StrippedLines |->
        \E k \in 1..Len(ALL_STANDARD_TESTS) :
            PolicyMatches(ALL_STANDARD_TESTS[k], ls)]

\* the step just taken opened a segment with line ln: the active segment's
\* paragraph buffer holds that line and nothing else
OpenedBy(ln, cur, buf) == cur # None /\ buf = strip(ln) \o " "

\* C8: a non-blank line opens a segment exactly when some catalog name, with
\* all whitespace removed and lower-cased, is a substring of the line with
\* all whitespace (tabs included) removed and lower-cased, or the lower-cased
\* name is a substring of the lower-cased line.
C8_WhitespaceInsensitive ==
    [][(pc = "scan" /\ line_i <= Len(lines) /\ ~IsBlank(lines[line_i])) =>
          (OpenedBy(lines[line_i], current', buffer_paragraph')
              <=> PolicyMemo[strip(lines[line_i])])]_vars

(***************************************************************************)
(* C9                                                                      *)
(***************************************************************************)
\* C9: when a heading line arrives while a segment is active, the record
\* emitted for the closed segment is the segment as it stood before that
\* line, and the new segment has the name, result, expected, actual and
\* paragraph that the heading line yields when scanned alone.
C9_FlushBeforeScan ==
    [][(pc = "scan" /\ line_i <= Len(lines) /\ current # None
            /\ IsHeading(lines[line_i])) =>
          /\ report_tests' =
                 Append(report_tests,
                        [current EXCEPT !.Paragraph = strip(buffer_paragraph)])
          /\ <<[current' EXCEPT !.Paragraph = strip(buffer_paragraph')]>> =
                 extract_tests_from_text(strip(lines[line_i]))]_vars

\* a segment with result PASS was just closed by a heading line that itself
\* carries fail, a limit and an actual value
C9_Witness ==
    /\ pc = "scan"
    /\ line_i > 2
    /\ IsHeading(lines[line_i - 1])
    /\ ~IsBlank(lines[line_i - 2])
    /\ Len(report_tests) >= 1
    /\ report_tests[Len(report_tests)].Result = "PASS"
    /\ report_tests[Len(report_tests)].Expected = "N/A"
    /\ current # None
    /\ current.Result = "FAIL"
    /\ current.Expected # "N/A"
    /\ current.Actual # "N/A"

(***************************************************************************)
(* C10                                                                     *)
(***************************************************************************)
\* the catalog names of the heading lines of ls, in line order
HeadingNames(ls) ==
    [k \in 1..Cardinality(HeadIdx(ls)) |->
        Searches(strip(ls[KthHeading(ls, k)])).matched_test]

\* C10: during the scan the emitted records plus the active segment are the
\* heading lines read so far; the function returns exactly one record per
\* heading line, in line order, and an empty list exactly when no line is a
\* heading.
C10_OneRecordPerHeading ==
    /\ pc = "scan" =>
           Len(report_tests) + (IF current # None THEN 1 ELSE 0)
               = Cardinality(HeadIdx(SubSeq(lines, 1, line_i - 1)))
    /\ Extracted =>
           /\ [k \in 1..Len(parsed_tests.rows) |-> parsed_tests.rows[k].TestName]
                  = HeadingNames(lines)
           /\ (parsed_tests.rows = <<>>) <=> (HeadIdx(lines) = {})

\* three segments: closed by the next heading, by a blank line, by the end
C10_Witness ==
    /\ Extracted
    /\ Len(parsed_tests.rows) = 3
    /\ LET h1 == KthHeading(lines, 1)
           h2 == KthHeading(lines, 2)
           h3 == KthHeading(lines, 3)
       IN  /\ SegEnd(lines, h1) + 1 = h2
           /\ IsBlank(lines[SegEnd(lines, h2) + 1])
           /\ SegEnd(lines, h3) = Len(lines)

====
